---------------------------- MODULE Spec2Model ----------------------------
(***************************************************************************)
(* Model of the stablecoin simulator (src/model, src/experiments).         *)
(*                                                                         *)
(* Number representation.  The program computes with Python floats.  The   *)
(* model computes with fixed-point integers:                               *)
(*   - amounts (supply, collateral, liquidity, demand and the initial_*    *)
(*     amounts of SystemParameters) are integers counting whole coins;     *)
(*   - every other real (prices, ratios, coefficients, shocks, thresholds, *)
(*     dt) is an integer counting millionths: 1.0 is SCALE, 0.001 is 1000. *)
(* Every product and quotient is rounded down to the next representable    *)
(* value, so a model value differs from the float value by rounding in the *)
(* sixth decimal place (resp. by fractions of one coin).  The input grids   *)
(* hold values at which the compared quantities differ by far more than    *)
(* this rounding, so that a strict inequality of the model is one of the   *)
(* program and vice versa.                                                 *)
(* A Python exception is modelled by the *_raises predicates: an operation *)
(* raises exactly when its predicate holds, and its value is then unused.  *)
(***************************************************************************)
EXTENDS Integers, Sequences, FiniteSets, TLC

VARIABLES
    params,     \* the SystemParameters record in use
    state,      \* the five-tuple (S, P, C, L, D) as a record
    tick,       \* number of simulate_step calls made so far
    shock,      \* the shocks passed to the last simulate_step call
    raised,     \* "none", or the name of the exception the last call raised
    mode,       \* which driver is running: "sim", "death_spiral", "no_shock",
                \* "fn", "experiment" or "monte_carlo"
    call,       \* pure-function harness: name and arguments of the call
    ret,        \* pure-function harness: returned value of the call
    exp,        \* experiment runner: its local variables and its result
    rng,        \* state of the process-wide generator np.random
    mc          \* Monte Carlo driver: its local variables and its results

vars == <<params, state, tick, shock, raised, mode, call, ret, exp, rng, mc>>

---------------------------------------------------------------------------
(* Fixed-point arithmetic standing for Python float arithmetic.            *)

SCALE == 10^6

Abs(x) == IF x < 0 THEN -x ELSE x

Min(a, b) == IF a < b THEN a ELSE b

Max(a, b) == IF a > b THEN a ELSE b

\* floor(a * b / SCALE), computed in pieces of three decimal digits so that
\* no intermediate product leaves the 32-bit range.
Mul(a, b) ==
    LET a1 == a \div 1000
        a0 == a % 1000
        b1 == b \div 1000
        b0 == b % 1000
    IN  a1 * b1 + ((a1 * b0 + a0 * b1 + ((a0 * b0) \div 1000)) \div 1000)

\* The n leading fractional decimal digits of r / b, for 0 <= r < b.
RECURSIVE FracDigits(_, _, _)
FracDigits(r, b, n) ==
    IF n = 0 THEN 0
    ELSE LET x == r * 10
         IN  (x \div b) * 10^(n - 1) + FracDigits(x % b, b, n - 1)

\* floor(a * SCALE / b) for b > 0: the quotient of two like quantities.
Div(a, b) == (a \div b) * SCALE + FracDigits(a % b, b, 6)

\* TRUE iff r * r <= x * SCALE, without forming either product.
SqLeq(r, x) ==
    LET r1 == r \div 1000
        r0 == r % 1000
        rem == (((2 * r1 * r0) % 1000) * 1000 + r0 * r0) % SCALE
        ceil == Mul(r, r) + (IF rem = 0 THEN 0 ELSE 1)
    IN  ceil <= x

\* Largest r in lo .. hi - 1 with r * r <= x * SCALE (bisection).
RECURSIVE SqrtSearch(_, _, _)
SqrtSearch(x, lo, hi) ==
    IF hi - lo <= 1 THEN lo
    ELSE LET mid == (lo + hi) \div 2
         IN  IF SqLeq(mid, x) THEN SqrtSearch(x, mid, hi)
                              ELSE SqrtSearch(x, lo, mid)

\* floor(sqrt(x / SCALE) * SCALE) for 0 <= x <= 4 * SCALE.
Sqrt(x) == SqrtSearch(x, 0, 2 * SCALE + 1)

\* x ** 2 and x ** 1.5 (the latter for x >= 0, as x * sqrt(x)).
Pow2(x) == Mul(x, x)

Pow15(x) == Mul(x, Sqrt(x))

---------------------------------------------------------------------------
(* src/model/parameters.py                                                 *)

SystemParameters ==
    [ mint_coefficient         |-> 100000,
      burn_coefficient         |-> 100000,
      liquidity_depth          |-> 1000000,
      demand_elasticity        |-> 500000,
      initial_supply           |-> 1000000,
      initial_collateral       |-> 1500000,
      initial_price            |-> 1000000,
      initial_liquidity        |-> 1000000,
      initial_demand           |-> 1000000,
      dt                       |-> 100000,
      random_seed              |-> 42,
      collapse_price_threshold |-> 500000,
      recovery_price_threshold |-> 950000 ]

---------------------------------------------------------------------------
(* src/model/dynamics.py                                                   *)

\* "C / S if S > 0 else 1.0"
collateral_ratio(C, S) == IF S > 0 THEN Div(C, S) ELSE SCALE

update_supply_raises(S, P, L, C, p) ==
    /\ ~(P - SCALE > 0)
    /\ p.initial_liquidity = 0

\* Mutant: the burn always works at full effectiveness.
update_supply_fullburn(S, P, L, C, p) ==
    LET price_deviation == P - SCALE
    IN  IF price_deviation > 0
        THEN LET delta_mint == Mul(Mul(p.mint_coefficient, price_deviation), S)
             IN  S + Min(delta_mint, Mul(L, 100000))
        ELSE LET delta_burn == Mul(Mul(p.burn_coefficient, Abs(price_deviation)), S)
             IN  S - Min(delta_burn, Mul(S, 100000))

\* Mutant: the burn is added to the supply instead of subtracted.
update_supply_burnadds(S, P, L, C, p) ==
    LET price_deviation == P - SCALE
    IN  IF price_deviation > 0
        THEN LET delta_mint == Mul(Mul(p.mint_coefficient, price_deviation), S)
             IN  S + Min(delta_mint, Mul(L, 100000))
        ELSE LET delta_burn == Mul(Mul(p.burn_coefficient, Abs(price_deviation)), S)
             IN  S + Min(delta_burn, Mul(S, 100000))

update_supply(S, P, L, C, p) ==
    LET price_deviation == P - SCALE
        cr == collateral_ratio(C, S)
    IN  IF price_deviation > 0
        THEN LET delta_mint == Mul(Mul(p.mint_coefficient, price_deviation), S)
             IN  S + Min(delta_mint, Mul(L, 100000))
        ELSE LET delta_burn == Mul(Mul(p.burn_coefficient, Abs(price_deviation)), S)
                 eff_cr == IF cr < SCALE THEN Max(Pow2(cr), 10000) ELSE SCALE
                 eff_knife == IF P < 800000
                              THEN Mul(eff_cr, Pow2(Div(P, 800000)))
                              ELSE eff_cr
                 liquidity_effectiveness ==
                     Min(Div(L, p.initial_liquidity), SCALE)
                 effectiveness == Mul(eff_knife, liquidity_effectiveness)
             IN  S - Min(Mul(delta_burn, effectiveness), Mul(S, 100000))

update_price_raises(S, D, L, C, p) ==
    /\ ~(S <= 0)
    /\ p.initial_liquidity = 0

update_price(S, D, L, C, p) ==
    IF S <= 0 THEN SCALE
    ELSE LET base_price == Div(D, S)
             cr == Div(C, S)
             panic_awareness == Pow15(SCALE - cr)
             price == IF cr < SCALE
                      THEN Mul(base_price, SCALE - panic_awareness)
                           + Mul(cr, panic_awareness)
                      ELSE base_price
             liquidity_ratio == Div(L, p.initial_liquidity)
             slipped == IF liquidity_ratio < 500000
                        THEN Mul(price, Pow2(Div(liquidity_ratio, 500000)))
                        ELSE price
         IN  Max(slipped, 1000)

\* Mutant: the reflexive crash is never applied.
update_collateral_nocrash(C, P, S, shk) == Max(Mul(C, SCALE + shk), 0)

\* Mutant: the shock enters with the wrong sign.
update_collateral_signflip(C, P, S, shk) ==
    LET C_new == Mul(C, SCALE - shk)
        depeg_severity == Div(900000 - P, 900000)
        reflexive_crash == Mul(depeg_severity, 200000)
        crashed == IF P < 900000 THEN Mul(C_new, SCALE - reflexive_crash)
                                 ELSE C_new
    IN  Max(crashed, 0)

update_collateral(C, P, S, shk) ==
    LET C_new == Mul(C, SCALE + shk)
        depeg_severity == Div(900000 - P, 900000)
        reflexive_crash == Mul(depeg_severity, 200000)
        crashed == IF P < 900000 THEN Mul(C_new, SCALE - reflexive_crash)
                                 ELSE C_new
    IN  Max(crashed, 0)

update_liquidity_raises(L, P, S, C, p) == p.initial_liquidity = 0

(* abs(P - 1.0) > 0.05 in floats.  At P = 0.95 and at P = 1.05 the float  *)
(* difference is 0.050000000000000044, which is above the float 0.05, so   *)
(* the comparison is true at distance exactly 0.05 as well.                *)
off_peg(P) == Abs(P - SCALE) >= 50000

\* Mutant: the stability drift enters the flow with the wrong sign.
liquidity_total_flow_negdrift(L, P, S, C, p) ==
    LET cr == collateral_ratio(C, S)
        stability == SCALE - Abs(P - SCALE)
        base_flow == -Mul(20000, stability)
        instability_penalty ==
            IF off_peg(P) THEN -Mul(150000, Abs(P - SCALE)) ELSE 0
        cr_penalty == IF cr < SCALE THEN -Mul(200000, SCALE - cr) ELSE 0
        liquidity_ratio == Div(L, p.initial_liquidity)
        bank_run_penalty ==
            IF liquidity_ratio < 500000
            THEN -Mul(250000, 500000 - liquidity_ratio) ELSE 0
    IN  base_flow + instability_penalty + cr_penalty + bank_run_penalty

\* Mutant: the instability term is added instead of subtracted.
liquidity_total_flow_signslip(L, P, S, C, p) ==
    LET cr == collateral_ratio(C, S)
        stability == SCALE - Abs(P - SCALE)
        base_flow == Mul(20000, stability)
        instability_penalty ==
            IF off_peg(P) THEN Mul(150000, Abs(P - SCALE)) ELSE 0
        cr_penalty == IF cr < SCALE THEN -Mul(200000, SCALE - cr) ELSE 0
        liquidity_ratio == Div(L, p.initial_liquidity)
        bank_run_penalty ==
            IF liquidity_ratio < 500000
            THEN -Mul(250000, 500000 - liquidity_ratio) ELSE 0
    IN  base_flow + instability_penalty + cr_penalty + bank_run_penalty

\* The growth rate of lines 108-131.
liquidity_total_flow(L, P, S, C, p) ==
    LET cr == collateral_ratio(C, S)
        stability == SCALE - Abs(P - SCALE)
        base_flow == Mul(20000, stability)
        instability_penalty ==
            IF off_peg(P) THEN -Mul(150000, Abs(P - SCALE)) ELSE 0
        cr_penalty == IF cr < SCALE THEN -Mul(200000, SCALE - cr) ELSE 0
        liquidity_ratio == Div(L, p.initial_liquidity)
        bank_run_penalty ==
            IF liquidity_ratio < 500000
            THEN -Mul(250000, 500000 - liquidity_ratio) ELSE 0
    IN  base_flow + instability_penalty + cr_penalty + bank_run_penalty

update_liquidity(L, P, S, C, p) ==
    LET L_new == Mul(L, SCALE + liquidity_total_flow(L, P, S, C, p))
    IN  Max(L_new, Mul(p.initial_liquidity, 10000))

update_demand(D, P, S, C, L, p) ==
    LET cr == collateral_ratio(C, S)
        liquidity_ratio == IF p.initial_liquidity > 0
                           THEN Div(L, p.initial_liquidity) ELSE SCALE
        price_effect == -Mul(p.demand_elasticity, P - SCALE)
        collateral_panic ==
            IF cr < SCALE
            THEN -Mul(500000, Pow15(SCALE - cr))
                 - (IF cr < 700000 THEN 300000 ELSE 0)
            ELSE 0
        price_panic ==
            IF P < 900000
            THEN -Mul(400000, Pow15(Div(900000 - P, 900000)))
                 - (IF P < 700000 THEN 250000 ELSE 0)
            ELSE 0
        liquidity_panic ==
            IF liquidity_ratio < 300000
            THEN -Mul(500000, Div(300000 - liquidity_ratio, 300000))
            ELSE 0
        panic_factor == collateral_panic + price_panic + liquidity_panic
        total_change == Mul(price_effect + panic_factor, D)
    IN  Max(D + total_change, Mul(p.initial_demand, 10000))

simulate_step_raises(st, p, collateral_shock, liquidity_shock) ==
    LET C_new == update_collateral(st.C, st.P, st.S, collateral_shock)
    IN  \/ update_liquidity_raises(st.L, st.P, st.S, C_new, p)
        \/ LET L_upd == update_liquidity(st.L, st.P, st.S, C_new, p)
               L_new == Mul(L_upd, SCALE + liquidity_shock)
           IN  \/ update_supply_raises(st.S, st.P, L_new, C_new, p)
               \/ update_price_raises(
                      update_supply(st.S, st.P, L_new, C_new, p),
                      update_demand(st.D, st.P, st.S, C_new, L_new, p),
                      L_new, C_new, p)

simulate_step(st, p, collateral_shock, liquidity_shock) ==
    LET C_new == update_collateral(st.C, st.P, st.S, collateral_shock)
        L_upd == update_liquidity(st.L, st.P, st.S, C_new, p)
        L_new == Mul(L_upd, SCALE + liquidity_shock)
        D_new == update_demand(st.D, st.P, st.S, C_new, L_new, p)
        S_new == update_supply(st.S, st.P, L_new, C_new, p)
        P_new == update_price(S_new, D_new, L_new, C_new, p)
    IN  [S |-> S_new, P |-> P_new, C |-> C_new, L |-> L_new, D |-> D_new]

---------------------------------------------------------------------------
(* Values of the variables a driver does not use.                          *)

NoShock == [collateral |-> 0, liquidity |-> 0]

IdleCall == [fn |-> "idle"]

IdleExp == [pc |-> "idle"]

IdleMc == [pc |-> "idle"]

\* np.random where no driver uses it: freshly seeded, nothing drawn.
NoRng == [seed |-> 0, pos |-> 0]

\* The state an experiment or a test starts from: the initial_* fields.
InitialState(p) ==
    [S |-> p.initial_supply, P |-> p.initial_price, C |-> p.initial_collateral,
     L |-> p.initial_liquidity, D |-> p.initial_demand]

---------------------------------------------------------------------------
(* Spec: any sequence of simulate_step calls with arbitrary shocks.        *)

MaxTicks == 3

SimParams ==
    { SystemParameters,
      [SystemParameters EXCEPT !.initial_liquidity = 0],
      [SystemParameters EXCEPT !.demand_elasticity = 4 * SCALE] }

CollateralShocks == {-1500000, -500000, 0, 200000}

LiquidityShocks == {-2 * SCALE, -900000, 0}

Init ==
    /\ mode = "sim"
    /\ params \in SimParams
    /\ state = InitialState(params)
    /\ tick = 0
    /\ shock = NoShock
    /\ raised = "none"
    /\ call = IdleCall
    /\ ret = 0
    /\ exp = IdleExp
    /\ rng = NoRng
    /\ mc = IdleMc

\* One call state = simulate_step(state, params, cs, ls); an exception
\* leaves the caller's state as it was and ends the run.
Step(cs, ls) ==
    /\ mode = "sim"
    /\ raised = "none"
    /\ tick < MaxTicks
    /\ shock' = [collateral |-> cs, liquidity |-> ls]
    /\ tick' = tick + 1
    /\ IF simulate_step_raises(state, params, cs, ls)
       THEN /\ raised' = "ZeroDivisionError"
            /\ state' = state
       ELSE /\ raised' = "none"
            /\ state' = simulate_step(state, params, cs, ls)
    /\ UNCHANGED <<params, mode, call, ret, exp, rng, mc>>

SimulateStep == \E cs \in CollateralShocks, ls \in LiquidityShocks : Step(cs, ls)

Next == SimulateStep

Spec == Init /\ [][Next]_vars

---------------------------------------------------------------------------
(* SpecScenario: the two scripted runs of src/tests/test_dynamics.py       *)
(* (test_death_spiral_occurs) and of the no-shock stability property.      *)

ScenarioSteps == 100

ScenarioInit ==
    /\ mode \in {"death_spiral", "no_shock"}
    /\ params = SystemParameters
    /\ state = [S |-> 1000000, P |-> SCALE, C |-> 1500000, L |-> 1000000,
                D |-> 1000000]
    /\ tick = 0
    /\ shock = NoShock
    /\ raised = "none"
    /\ call = IdleCall
    /\ ret = 0
    /\ exp = IdleExp
    /\ rng = NoRng
    /\ mc = IdleMc

\* state = simulate_step(state, params, collateral_shock=-0.5)
ShockedStep ==
    /\ mode = "death_spiral"
    /\ tick = 0
    /\ shock' = [collateral |-> -500000, liquidity |-> 0]
    /\ state' = simulate_step(state, params, -500000, 0)
    /\ tick' = tick + 1
    /\ UNCHANGED <<params, raised, mode, call, ret, exp, rng, mc>>

\* for _ in range(100): state = simulate_step(state, params)
QuietStep ==
    /\ \/ mode = "death_spiral" /\ tick >= 1 /\ tick < ScenarioSteps + 1
       \/ mode = "no_shock" /\ tick < ScenarioSteps
    /\ shock' = NoShock
    /\ state' = simulate_step(state, params, 0, 0)
    /\ tick' = tick + 1
    /\ UNCHANGED <<params, raised, mode, call, ret, exp, rng, mc>>

ScenarioNext == ShockedStep \/ QuietStep

SpecScenario == ScenarioInit /\ [][ScenarioNext]_vars

---------------------------------------------------------------------------
(* SpecFn: one call of one of the five update functions, as the unit tests *)
(* of src/tests/test_dynamics.py make them, on arguments drawn from grids. *)
(* The arguments are held in state, shock.collateral and params.           *)

FnParams ==
    { SystemParameters,
      [SystemParameters EXCEPT !.initial_liquidity = 0],
      [SystemParameters EXCEPT !.mint_coefficient = 0, !.burn_coefficient = 0],
      [SystemParameters EXCEPT !.burn_coefficient = 2 * SCALE] }

SupplyGrid == {0, 1000000, 2000000}

PriceGrid == {0, 500000, 850000, 940000, 950000, 1000000, 1100000, 2000000}

CollateralGrid == {0, 500000, 990000, 1000000, 2000000}

LiquidityGrid == {0, 200000, 1000000}

DemandGrid == {500000, 1000000}

FnShocks == {-1500000, -300000, 0}

FnInit ==
    /\ mode = "fn"
    /\ params \in FnParams
    /\ state \in [S : SupplyGrid, P : PriceGrid, C : CollateralGrid,
                  L : LiquidityGrid, D : DemandGrid]
    /\ shock \in [collateral : FnShocks, liquidity : {0}]
    /\ tick = 0
    /\ raised = "none"
    /\ call = IdleCall
    /\ ret = 0
    /\ exp = IdleExp
    /\ rng = NoRng
    /\ mc = IdleMc

\* The common shape of a call: it either raises or returns v.
Returns(fn, raises, v) ==
    /\ mode = "fn"
    /\ call.fn = "idle"
    /\ call' = [fn |-> fn]
    /\ IF raises THEN raised' = "ZeroDivisionError" /\ ret' = ret
                 ELSE raised' = "none" /\ ret' = v
    /\ UNCHANGED <<params, state, tick, shock, mode, exp, rng, mc>>

CallUpdateSupply ==
    Returns("update_supply",
            update_supply_raises(state.S, state.P, state.L, state.C, params),
            update_supply(state.S, state.P, state.L, state.C, params))

CallUpdatePrice ==
    Returns("update_price",
            update_price_raises(state.S, state.D, state.L, state.C, params),
            update_price(state.S, state.D, state.L, state.C, params))

CallUpdateCollateral ==
    Returns("update_collateral", FALSE,
            update_collateral(state.C, state.P, state.S, shock.collateral))

CallUpdateLiquidity ==
    Returns("update_liquidity",
            update_liquidity_raises(state.L, state.P, state.S, state.C, params),
            update_liquidity(state.L, state.P, state.S, state.C, params))

CallUpdateDemand ==
    Returns("update_demand", FALSE,
            update_demand(state.D, state.P, state.S, state.C, state.L, params))

FnNext ==
    \/ CallUpdateSupply
    \/ CallUpdatePrice
    \/ CallUpdateCollateral
    \/ CallUpdateLiquidity
    \/ CallUpdateDemand

SpecFn == FnInit /\ [][FnNext]_vars

---------------------------------------------------------------------------
(* SpecExperiment: run_collateral_shock_experiment and                     *)
(* run_liquidity_crisis_experiment.  state holds the locals S, P, C, L, D, *)
(* tick the loop variable t; exp.series[t + 1] holds supply[t], price[t],  *)
(* collateral[t], liquidity[t] and demand[t] as one record.                *)

\* np.inf
inf == 2147483647

(* np.random, the process-wide generator (numpy's legacy MT19937).  Its   *)
(* state is modelled as the seed it was last given and the number of       *)
(* 32-bit words drawn since; MT19937[s] holds the first words of the       *)
(* stream after np.random.seed(s), each as <<upper 16 bits, lower 16       *)
(* bits>>.  A draw reads the words from the position on, as numpy does.    *)
(* Only the seeds and the stretch of the stream tabulated here can be      *)
(* drawn from.                                                             *)
MT19937 ==
    (42 :> <<
        <<24545, 56422>>, <<52202, 15795>>, <<62306, 860>>, <<12021, 38158>>,
        <<47971, 62570>>, <<51097, 54343>>, <<39233, 44732>>, <<39115, 11284>>,
        <<10224, 54886>>, <<29218, 6265>>, <<10223, 16850>>, <<6551, 62678>>,
        <<3806, 37194>>, <<30097, 21962>>, <<56765, 47191>>, <<21869, 60788>>,
        <<39394, 44131>>, <<9362, 60263>>, <<46404, 16023>>, <<42656, 41090>>,
        <<1349, 1685>>, <<3696, 64820>>, <<63564, 769>>, <<47316, 59735>> >>) @@
    (43 :> <<
        <<7540, 14148>>, <<32562, 19776>>, <<39915, 51455>>, <<6744, 40753>>,
        <<8741, 59669>>, <<9749, 63546>>, <<15767, 18448>>, <<11280, 57651>>,
        <<21439, 25233>>, <<53152, 5307>>, <<56304, 28507>>, <<4898, 16322>>,
        <<43652, 58222>>, <<2952, 38302>>, <<35465, 39767>>, <<40116, 45376>>,
        <<1901, 29475>>, <<38982, 44927>>, <<48086, 60850>>, <<16424, 379>>,
        <<25883, 29131>>, <<9657, 58457>>, <<52562, 62913>>, <<739, 42351>> >>) @@
    (44 :> <<
        <<54712, 14100>>, <<28347, 3491>>, <<6867, 60145>>, <<2082, 25773>>,
        <<48800, 49723>>, <<41146, 53123>>, <<23625, 51296>>, <<12086, 4180>>,
        <<23547, 52099>>, <<19423, 19183>>, <<39927, 3050>>, <<16840, 41080>>,
        <<25806, 48279>>, <<44559, 37175>>, <<26808, 64406>>, <<18517, 56793>>,
        <<33416, 63171>>, <<60086, 11975>>, <<46540, 16963>>, <<13639, 18659>>,
        <<62949, 3046>>, <<41387, 23661>>, <<29925, 7925>>, <<52338, 43620>> >>) @@
    (50 :> <<
        <<32414, 14000>>, <<8465, 38368>>, <<14947, 42891>>, <<4874, 22637>>,
        <<16742, 48417>>, <<39972, 59358>>, <<25973, 57476>>, <<1404, 55366>>,
        <<24727, 47333>>, <<9974, 41030>>, <<65311, 32022>>, <<62567, 40685>>,
        <<26751, 40069>>, <<52735, 44290>>, <<50586, 55391>>, <<16005, 56570>>,
        <<49842, 34887>>, <<21312, 8559>>, <<20316, 50628>>, <<28790, 19406>>,
        <<22710, 60579>>, <<8833, 32604>>, <<23053, 16987>>, <<38975, 51354>> >>) @@
    (54 :> <<
        <<27537, 7279>>, <<12709, 40261>>, <<23805, 17282>>, <<164, 61199>>,
        <<12116, 5143>>, <<64979, 28385>>, <<33966, 11584>>, <<15484, 56632>>,
        <<563, 63367>>, <<14223, 18449>>, <<63500, 13321>>, <<15913, 62982>>,
        <<52519, 21097>>, <<29118, 44279>>, <<49631, 12996>>, <<32651, 3316>>,
        <<44006, 25908>>, <<24961, 5133>>, <<1943, 39454>>, <<22528, 30678>>,
        <<25661, 26836>>, <<2295, 38974>>, <<26528, 38160>>, <<14553, 45414>> >>)

\* np.random.seed(s)
seed(s) == [seed |-> s, pos |-> 0]

\* The i-th 32-bit word drawn from state r on (i = 1 is the next word).
next_uint32(r, i) == MT19937[r.seed][r.pos + i]

\* The state after n more words.
advance(r, n) == [r EXCEPT !.pos = @ + n]

(* random_double: (a >> 5, b >> 6) from two words, (a * 2^26 + b) / 2^53.  *)
(* In millionths, rounded down; b adds less than 0.01 millionths and is    *)
(* left out.                                                               *)
random_double(r) ==
    LET a == next_uint32(r, 1)[1] * 2048 + (next_uint32(r, 1)[2] \div 32)
    IN  Div(a, 134217728)

\* np.random.uniform(low, high) drawn in state r; it takes two words.
uniform(r, low, high) == low + Mul(high - low, random_double(r))

\* gen_mask: the smallest 2^k - 1 that is >= max, from the candidate m on.
RECURSIVE gen_mask(_, _)
gen_mask(max, m) == IF m >= max THEN m ELSE gen_mask(max, 2 * m + 1)

\* Masked rejection sampling: the number of words taken until one, masked,
\* is <= max (ranges below 2^16).
RECURSIVE words_taken(_, _, _)
words_taken(r, max, i) ==
    IF next_uint32(r, i)[2] % (gen_mask(max, 0) + 1) <= max THEN i
    ELSE words_taken(r, max, i + 1)

\* np.random.randint(low, high) drawn in state r.
randint(r, low, high) ==
    LET max == high - 1 - low
    IN  low + (next_uint32(r, words_taken(r, max, 1))[2]
                   % (gen_mask(max, 0) + 1))

ExpSteps == 6

ExpParams ==
    { SystemParameters,
      [SystemParameters EXCEPT !.demand_elasticity = 4 * SCALE] }

ExpMagnitudes == {-700000, -300000}

ExpShockTimes == {0, 1}

ExperimentInit ==
    /\ mode = "experiment"
    /\ params \in ExpParams
    /\ state = InitialState(params)
    /\ tick = 0
    /\ shock = NoShock
    /\ raised = "none"
    /\ call = IdleCall
    /\ ret = 0
    /\ rng = seed(params.random_seed)
    /\ mc = IdleMc
    /\ \E kind \in {"collateral_shock", "liquidity_crisis"},
          magnitude \in ExpMagnitudes, time \in ExpShockTimes :
          exp = [pc |-> "loop", kind |-> kind, shock_magnitude |-> magnitude,
                 shock_time |-> time, n_steps |-> ExpSteps, series |-> <<>>,
                 peg_deviation_integral |-> 0, time_to_collapse |-> 0,
                 max_drawdown |-> 0, recovered |-> FALSE]

\* One iteration of "for t in range(n_steps)": store the state, step.
ExperimentLoop ==
    /\ mode \in {"experiment", "monte_carlo"}
    /\ exp.pc = "loop"
    /\ tick < exp.n_steps
    /\ LET s == IF tick = exp.shock_time THEN exp.shock_magnitude ELSE 0
           cs == IF exp.kind = "collateral_shock" THEN s ELSE 0
           ls == IF exp.kind = "liquidity_crisis" THEN s ELSE 0
       IN  /\ shock' = [collateral |-> cs, liquidity |-> ls]
           /\ IF simulate_step_raises(state, params, cs, ls)
              THEN /\ raised' = "ZeroDivisionError"
                   /\ state' = state
                   /\ exp' = [exp EXCEPT !.pc = "raised",
                                         !.series = Append(@, state)]
              ELSE /\ raised' = raised
                   /\ state' = simulate_step(state, params, cs, ls)
                   /\ exp' = [exp EXCEPT !.series = Append(@, state)]
    /\ tick' = tick + 1
    /\ UNCHANGED <<params, mode, call, ret, rng, mc>>

\* price[i] and time[i] of the result, for the array index i = 0 .. n - 1.
PriceAt(e, i) == e.series[i + 1].P

TimeAt(p, i) == i * p.dt

\* np.trapezoid(np.abs(price - 1.0), time)
RECURSIVE Trapezoid(_, _, _)
Trapezoid(e, p, i) ==
    IF i <= 0 THEN 0
    ELSE Trapezoid(e, p, i - 1)
         + Mul(TimeAt(p, i) - TimeAt(p, i - 1),
               (Abs(PriceAt(e, i) - SCALE) + Abs(PriceAt(e, i - 1) - SCALE)) \div 2)

\* collapse_mask = price < params.collapse_price_threshold, as an index set.
collapse_mask(e, p) ==
    {i \in 0 .. Len(e.series) - 1 : PriceAt(e, i) < p.collapse_price_threshold}

\* np.argmax of a boolean mask with a TRUE entry: the first TRUE index.
ArgMax(mask) == CHOOSE i \in mask : \A j \in mask : i <= j

\* "Check recovery": post_collapse = price[collapse_mask]
Recovered(e, p, ttc) ==
    IF ttc < inf
    THEN \E i \in collapse_mask(e, p) :
             PriceAt(e, i) > p.recovery_price_threshold
    ELSE TRUE

\* "Compute metrics" and return the ExperimentResults.
ExperimentDone ==
    /\ mode \in {"experiment", "monte_carlo"}
    /\ exp.pc = "loop"
    /\ tick = exp.n_steps
    /\ LET mask == collapse_mask(exp, params)
           ttc == IF mask # {} THEN TimeAt(params, ArgMax(mask)) ELSE inf
           drawdowns == {SCALE - PriceAt(exp, i) : i \in 0 .. Len(exp.series) - 1}
       IN  exp' = [exp EXCEPT
                     !.pc = "done",
                     !.peg_deviation_integral =
                         Trapezoid(exp, params, Len(exp.series) - 1),
                     !.time_to_collapse = ttc,
                     !.max_drawdown = CHOOSE d \in drawdowns :
                                          \A x \in drawdowns : d >= x,
                     !.recovered = Recovered(exp, params, ttc)]
    /\ UNCHANGED <<params, state, tick, shock, raised, mode, call, ret, rng, mc>>

ExperimentNext == ExperimentLoop \/ ExperimentDone

SpecExperiment == ExperimentInit /\ [][ExperimentNext]_vars

---------------------------------------------------------------------------
(* SpecMonteCarlo: run_monte_carlo_stress_test.  mc holds the driver's     *)
(* arguments (base_params, param_ranges, n_trials, n_steps), its locals    *)
(* (the grid cell as the position of "indices" in itertools.product,       *)
(* test_params, trial, collapses, ttc_sum, drawdown_sum), its result       *)
(* arrays, and a log with one record per call of the experiment runner.    *)
(* params, state, tick and exp are the runner's, as in SpecExperiment.     *)
(* The driver is invoked McInvocations times with identical arguments;     *)
(* the generator is left as the previous invocation left it.  An exception *)
(* in the runner propagates: the driver takes no further step.             *)

grid_size == 10

McTrials == 2

McSteps == 56

McInvocations == 2

\* The fields of the SystemParameters dataclass.
Fields == DOMAIN SystemParameters

\* asdict with no entries: SystemParameters() is built from defaults alone.
asdict_empty(p) == [f \in {} |-> 0]

\* dataclasses.asdict(p)
asdict(p) == [f \in Fields |-> p[f]]

\* SystemParameters(**d): a field without a keyword takes its default.
construct(d) ==
    [f \in Fields |-> IF f \in DOMAIN d THEN d[f] ELSE SystemParameters[f]]

\* np.linspace(lo, hi, n), as a sequence of n values.
linspace(lo, hi, n) ==
    [i \in 1 .. n |-> lo + ((i - 1) * (hi - lo)) \div (n - 1)]

\* param_values[name] for the i-th entry of param_ranges.
param_values(ranges, i) == linspace(ranges[i].min, ranges[i].max, grid_size)

\* grid_size ** n_params, the number of tuples of itertools.product.
NCells(ranges) == grid_size ^ Len(ranges)

\* indices[i - 1] of the cell-th tuple of itertools.product (the last index
\* runs fastest).
indices(ranges, cell, i) ==
    (cell \div (grid_size ^ (Len(ranges) - i))) % grid_size

\* "for i, param_name in enumerate(param_names): setattr(...)" from entry i on.
RECURSIVE setattrs(_, _, _, _)
setattrs(p, ranges, cell, i) ==
    IF i > Len(ranges) THEN p
    ELSE setattrs([p EXCEPT ![ranges[i].name] =
                       param_values(ranges, i)[indices(ranges, cell, i) + 1]],
                  ranges, cell, i + 1)

\* test_params of a grid cell, before the trials.
test_params(base, ranges, cell) ==
    setattrs(construct(asdict(base)), ranges, cell, 1)

McBaseParams ==
    [SystemParameters EXCEPT !.burn_coefficient = 200000,
                             !.recovery_price_threshold = 900000]

McRanges ==
    { <<[name |-> "initial_collateral", min |-> 1000000, max |-> 1900000]>>,
      <<[name |-> "demand_elasticity", min |-> 500000, max |-> 5000000]>> }

\* The state of np.random when the driver is first entered: the caller
\* has seeded it with one of these values.
McEntrySeeds == {50, 54}

McArrays == [collapse_prob |-> <<>>, mean_ttc |-> <<>>, mean_drawdown |-> <<>>]

McInit ==
    /\ mode = "monte_carlo"
    /\ params = McBaseParams
    /\ state = InitialState(params)
    /\ tick = 0
    /\ shock = NoShock
    /\ raised = "none"
    /\ call = IdleCall
    /\ ret = 0
    /\ exp = IdleExp
    /\ \E s \in McEntrySeeds : rng = seed(s)
    /\ \E ranges \in McRanges :
          mc = [pc |-> "cell", invocation |-> 1,
                base_params |-> McBaseParams, param_ranges |-> ranges,
                n_trials |-> McTrials, n_steps |-> McSteps,
                cell |-> 0, test_params |-> McBaseParams, trial |-> 0,
                collapses |-> 0, ttc_sum |-> 0, drawdown_sum |-> 0,
                shock_mag |-> 0, shock_time |-> 0,
                results |-> McArrays, log |-> <<>>]

\* Head of "for indices in itertools.product(...)": build test_params and
\* reset the accumulators.
McCellStart ==
    /\ mode = "monte_carlo"
    /\ mc.pc = "cell"
    /\ mc.cell < NCells(mc.param_ranges)
    /\ mc' = [mc EXCEPT
                !.pc = "trial",
                !.test_params = test_params(mc.base_params, mc.param_ranges,
                                            mc.cell),
                !.trial = 0, !.collapses = 0, !.ttc_sum = 0,
                !.drawdown_sum = 0]
    /\ UNCHANGED <<params, state, tick, shock, raised, mode, call, ret, exp, rng>>

\* Head of "for trial in range(n_trials)": draw the shock, set the seed and
\* enter run_collateral_shock_experiment up to its loop (which seeds
\* np.random).
McTrialStart ==
    /\ mode = "monte_carlo"
    /\ mc.pc = "trial"
    /\ mc.trial < mc.n_trials
    /\ LET shock_mag == uniform(rng, -500000, -200000)
           shock_time == randint(advance(rng, 2), 50, 150)
           tp == [mc.test_params EXCEPT
                    !.random_seed = mc.base_params.random_seed + mc.trial]
       IN  /\ mc' = [mc EXCEPT !.pc = "running", !.test_params = tp,
                               !.shock_mag = shock_mag,
                               !.shock_time = shock_time]
           /\ params' = tp
           /\ state' = InitialState(tp)
           /\ rng' = seed(tp.random_seed)
           /\ exp' = [pc |-> "loop", kind |-> "collateral_shock",
                      shock_magnitude |-> shock_mag, shock_time |-> shock_time,
                      n_steps |-> mc.n_steps, series |-> <<>>,
                      peg_deviation_integral |-> 0, time_to_collapse |-> 0,
                      max_drawdown |-> 0, recovered |-> FALSE]
    /\ tick' = 0
    /\ shock' = NoShock
    /\ UNCHANGED <<raised, mode, call, ret>>

\* The runner has returned: accumulate its result.
McTrialEnd ==
    /\ mode = "monte_carlo"
    /\ mc.pc = "running"
    /\ exp.pc = "done"
    /\ LET collapsed == exp.time_to_collapse < inf
       IN  mc' = [mc EXCEPT
                    !.pc = "trial",
                    !.trial = @ + 1,
                    !.collapses = IF collapsed THEN @ + 1 ELSE @,
                    !.ttc_sum = IF collapsed THEN @ + exp.time_to_collapse ELSE @,
                    !.drawdown_sum = @ + exp.max_drawdown,
                    !.log = Append(@, [invocation |-> mc.invocation,
                                       cell |-> mc.cell, trial |-> mc.trial,
                                       params |-> params,
                                       shock_mag |-> mc.shock_mag,
                                       shock_time |-> mc.shock_time,
                                       result |-> exp])]
    /\ UNCHANGED <<params, state, tick, shock, raised, mode, call, ret, exp, rng>>

\* "Store results" of the cell and go on to the next tuple.
McCellEnd ==
    /\ mode = "monte_carlo"
    /\ mc.pc = "trial"
    /\ mc.trial = mc.n_trials
    /\ mc' = [mc EXCEPT
                !.pc = "cell",
                !.cell = @ + 1,
                !.results.collapse_prob =
                    Append(@, Div(mc.collapses, mc.n_trials)),
                !.results.mean_ttc =
                    Append(@, mc.ttc_sum \div Max(mc.collapses, 1)),
                !.results.mean_drawdown =
                    Append(@, mc.drawdown_sum \div mc.n_trials)]
    /\ UNCHANGED <<params, state, tick, shock, raised, mode, call, ret, exp, rng>>

\* return MonteCarloResults(...)
McReturn ==
    /\ mode = "monte_carlo"
    /\ mc.pc = "cell"
    /\ mc.cell = NCells(mc.param_ranges)
    /\ mc' = [mc EXCEPT !.pc = "done"]
    /\ UNCHANGED <<params, state, tick, shock, raised, mode, call, ret, exp, rng>>

\* The caller invokes the driver again with the same arguments.
McInvokeAgain ==
    /\ mode = "monte_carlo"
    /\ mc.pc = "done"
    /\ mc.invocation < McInvocations
    /\ mc' = [mc EXCEPT !.pc = "cell", !.invocation = @ + 1, !.cell = 0,
                        !.results = McArrays]
    /\ UNCHANGED <<params, state, tick, shock, raised, mode, call, ret, exp, rng>>

McNext ==
    \/ McCellStart
    \/ McTrialStart
    \/ ExperimentLoop
    \/ ExperimentDone
    \/ McTrialEnd
    \/ McCellEnd
    \/ McReturn
    \/ McInvokeAgain

SpecMonteCarlo == McInit /\ [][McNext]_vars

---------------------------------------------------------------------------
(* Claims on simulate_step.                                                *)

\* C1 (as claimed): every state returned by simulate_step has supply,
\* collateral, liquidity and demand >= 0 and price >= 0.001, whatever the
\* shocks.
Positivity ==
    (mode = "sim" /\ raised = "none") =>
        /\ state.S >= 0
        /\ state.C >= 0
        /\ state.L >= 0
        /\ state.D >= 0
        /\ state.P >= 1000

\* C2 (as claimed): the liquidity returned by simulate_step is never below
\* 1% of params.initial_liquidity, whatever the liquidity shock.
LiquidityFloor ==
    (mode = "sim" /\ tick > 0 /\ raised = "none") =>
        100 * state.L >= params.initial_liquidity

\* C3 (as claimed): simulate_step returns a value without raising for every
\* input, also when params.initial_liquidity = 0.
Totality == mode = "sim" => raised = "none"

\* C4: a collateral shock of -0.5 followed by 100 unshocked steps ends with
\* the price below the collapse threshold 0.5.
DeathSpiral ==
    (mode = "death_spiral" /\ tick = ScenarioSteps + 1) =>
        state.P < params.collapse_price_threshold

DeathSpiralWitness ==
    /\ mode = "death_spiral"
    /\ tick = ScenarioSteps + 1
    /\ shock = NoShock
    /\ state.P < 500000

\* C5: without shocks the price stays within 0.05 of 1.0 and never falls
\* below the collapse threshold, at each of the 100 steps.
NoShockStability ==
    mode = "no_shock" =>
        /\ Abs(state.P - SCALE) <= 50000
        /\ state.P >= params.collapse_price_threshold

NoShockStabilityWitness ==
    /\ mode = "no_shock"
    /\ tick = ScenarioSteps
    /\ state.L > 7 * params.initial_liquidity
    /\ state.P = SCALE

---------------------------------------------------------------------------
(* Claims on the update functions (SpecFn).                                *)

SupplyCalled == mode = "fn" /\ call.fn = "update_supply"

\* "Full collateralization and ample liquidity" of the claims C6: the
\* collateral ratio as update_supply computes it is >= 1 and the liquidity
\* is at least the initial liquidity.
AmpleBacking ==
    /\ collateral_ratio(state.C, state.S) >= SCALE
    /\ state.L >= params.initial_liquidity

\* C6 (as claimed): with collateral ratio >= 1 and liquidity >=
\* initial_liquidity, update_supply returns more than the current supply for
\* every price > 1 and less than the current supply for every price < 1.
MintBurnDirectionClaimed ==
    (SupplyCalled /\ AmpleBacking) =>
        /\ state.P > SCALE => (raised = "none" /\ ret > state.S)
        /\ state.P < SCALE => (raised = "none" /\ ret < state.S)

\* C6 (amended): the same, for supply > 0 and initial_liquidity > 0, a
\* positive mint coefficient (price > 1) and a positive burn coefficient
\* and a price > 0 (price < 1).
MintBurnDirection ==
    (SupplyCalled /\ AmpleBacking /\ state.S > 0 /\ params.initial_liquidity > 0) =>
        /\ (state.P > SCALE /\ params.mint_coefficient > 0) =>
               (raised = "none" /\ ret > state.S)
        /\ (state.P < SCALE /\ state.P > 0 /\ params.burn_coefficient > 0) =>
               (raised = "none" /\ ret < state.S)

MintBurnDirectionWitness ==
    /\ SupplyCalled
    /\ AmpleBacking
    /\ state.S > 0
    /\ state.P < SCALE
    /\ state.P > 0
    /\ params.burn_coefficient > 0
    /\ raised = "none"
    /\ ret < state.S

\* The amount update_supply burns at collateral c, all else as in the call.
Burned(c) == state.S - update_supply(state.S, state.P, state.L, c, params)

BurnCalled ==
    /\ SupplyCalled
    /\ raised = "none"
    /\ state.P <= SCALE

\* C7 (as claimed): at a price <= 1, with supply, liquidity and price fixed,
\* a collateral with ratio < 1 burns strictly less than any collateral with
\* ratio >= 1, and a lower collateral never burns more.
BurnCollapseClaimed ==
    BurnCalled =>
        \A c \in CollateralGrid :
            /\ ( /\ collateral_ratio(state.C, state.S) < SCALE
                 /\ collateral_ratio(c, state.S) >= SCALE )
               => state.S - ret < Burned(c)
            /\ c <= state.C => Burned(c) <= state.S - ret

\* C7 (amended): a lower collateral never burns more, and a collateral with
\* ratio < 1 burns strictly less than one with ratio >= 1 whenever the burn
\* at ratio >= 1 is positive and below the cap of 10% of supply.
BurnCollapse ==
    BurnCalled =>
        \A c \in CollateralGrid :
            /\ ( /\ collateral_ratio(state.C, state.S) < SCALE
                 /\ collateral_ratio(c, state.S) >= SCALE
                 /\ Burned(c) > 0
                 /\ Burned(c) < Mul(state.S, 100000) )
               => state.S - ret < Burned(c)
            /\ c <= state.C => Burned(c) <= state.S - ret

BurnCollapseWitness ==
    /\ BurnCalled
    /\ state.P < SCALE
    /\ collateral_ratio(state.C, state.S) < SCALE
    /\ \E c \in CollateralGrid :
           /\ collateral_ratio(c, state.S) >= SCALE
           /\ Burned(c) > 0
           /\ Burned(c) < Mul(state.S, 100000)
           /\ state.S - ret < Burned(c)
           /\ state.S - ret > 0

CollateralCalled == mode = "fn" /\ call.fn = "update_collateral"

\* C8 (as claimed): with shock = 0 every price < 0.9 returns strictly less
\* collateral than price = 1.0 does, which returns the input collateral;
\* with price >= 0.9 the result is collateral * (1 + shock) clamped at 0.
ReflexiveCrashClaimed ==
    CollateralCalled =>
        /\ (shock.collateral = 0 /\ state.P < 900000) =>
              /\ update_collateral(state.C, SCALE, state.S, 0) = state.C
              /\ ret < update_collateral(state.C, SCALE, state.S, 0)
        /\ state.P >= 900000 =>
              ret = Max(Mul(state.C, SCALE + shock.collateral), 0)

\* C8 (amended): the same, the strict decrease for collateral > 0 (a
\* collateral of 0 stays 0 at every price).
ReflexiveCrash ==
    CollateralCalled =>
        /\ (shock.collateral = 0 /\ state.P < 900000) =>
              /\ update_collateral(state.C, SCALE, state.S, 0) = state.C
              /\ state.C > 0 => ret < update_collateral(state.C, SCALE, state.S, 0)
              /\ state.C = 0 => ret = 0
        /\ state.P >= 900000 =>
              ret = Max(Mul(state.C, SCALE + shock.collateral), 0)

ReflexiveCrashWitness ==
    /\ CollateralCalled
    /\ shock.collateral = 0
    /\ state.P < 900000
    /\ state.C > 0
    /\ ret < state.C
    /\ ret > 0

LiquidityCalled ==
    /\ mode = "fn"
    /\ call.fn = "update_liquidity"
    /\ raised = "none"

\* The case of C9: unstable price and collateral ratio below 1.
Unstable ==
    /\ Abs(state.P - SCALE) > 50000
    /\ collateral_ratio(state.C, state.S) < SCALE

\* Growth rate and result of the stable, fully collateralised baseline:
\* price 1.0, collateral equal to supply, the same liquidity and parameters.
BaselineFlow ==
    liquidity_total_flow(state.L, SCALE, state.S, state.S, params)

BaselineLiquidity ==
    update_liquidity(state.L, SCALE, state.S, state.S, params)

\* C9 (as claimed): with |price - 1| > 0.05 and collateral ratio < 1 the
\* growth rate is strictly negative, and the returned liquidity is strictly
\* less than a current liquidity above the 1% floor.
LiquidityFlightClaimed ==
    (LiquidityCalled /\ Unstable) =>
        /\ liquidity_total_flow(state.L, state.P, state.S, state.C, params) < 0
        /\ state.L > Mul(params.initial_liquidity, 10000) => ret < state.L

\* C9 (amended): in that case the growth rate is strictly below the rate of
\* the stable, fully collateralised baseline and the returned liquidity is
\* never above the baseline's; the rate is strictly negative, and the
\* returned liquidity strictly less than a current liquidity above the
\* floor, when moreover 0.17 * |price - 1| + 0.2 * (1 - ratio) > 0.02.
LiquidityFlight ==
    (LiquidityCalled /\ Unstable) =>
        LET flow == liquidity_total_flow(state.L, state.P, state.S, state.C, params)
            drag == Mul(170000, Abs(state.P - SCALE))
                    + Mul(200000, SCALE - collateral_ratio(state.C, state.S))
        IN  /\ flow < BaselineFlow
            /\ ret <= BaselineLiquidity
            /\ drag > 20000 =>
                  /\ flow < 0
                  /\ state.L > Mul(params.initial_liquidity, 10000) => ret < state.L

LiquidityFlightWitness ==
    /\ LiquidityCalled
    /\ Unstable
    /\ state.L > Mul(params.initial_liquidity, 10000)
    /\ liquidity_total_flow(state.L, state.P, state.S, state.C, params) < 0
    /\ ret < state.L
    /\ ret < BaselineLiquidity

---------------------------------------------------------------------------
(* Claims on the experiment runners (SpecExperiment).                      *)

ExperimentReturned == mode = "experiment" /\ exp.pc = "done"

\* C10 (as claimed): when the price series has a first tick t_c below the
\* collapse threshold, recovered is true exactly when a price recorded
\* after t_c exceeds the recovery threshold; when there is no such tick,
\* time_to_collapse is infinite and recovered is true.
RecoveredFlag ==
    ExperimentReturned =>
        LET mask == collapse_mask(exp, params)
        IN  IF mask # {}
            THEN exp.recovered <=>
                     \E i \in 0 .. Len(exp.series) - 1 :
                         /\ i > ArgMax(mask)
                         /\ PriceAt(exp, i) > params.recovery_price_threshold
            ELSE exp.time_to_collapse = inf /\ exp.recovered

---------------------------------------------------------------------------
(* Claims on trajectories of simulate_step (Spec).                         *)

\* A simulate_step call that returned: the step from state to state'.
Stepped ==
    /\ mode = "sim"
    /\ tick' = tick + 1
    /\ raised' = "none"

\* C13 (as claimed): every simulate_step from a positive supply satisfies
\* 0.9 * S <= S' <= S + 0.1 * L' (L' the updated, shocked liquidity), and
\* the supply stays strictly positive.
SupplyCaps ==
    [][(Stepped /\ state.S > 0) =>
          /\ 10 * state'.S >= 9 * state.S
          /\ state'.S <= state.S + Mul(state'.L, 100000)
          /\ state'.S > 0]_vars

\* C14: a simulate_step call with collateral_shock <= 0 never raises the
\* collateral, and a collateral of 0 stays 0.
CollateralNeverRecovers ==
    [][(Stepped /\ shock'.collateral <= 0) =>
          /\ state'.C <= state.C
          /\ state.C = 0 => state'.C = 0]_vars

CollateralNeverRecoversWitness ==
    /\ mode = "sim"
    /\ raised = "none"
    /\ tick >= 2
    /\ shock.collateral = 0
    /\ state.C = 0


---------------------------------------------------------------------------
(* Claims on run_monte_carlo_stress_test (SpecMonteCarlo).                 *)

\* The grid value of the swept field f in the cell the driver is in.
GridValue(f) ==
    LET i == CHOOSE k \in 1 .. Len(mc.param_ranges) : mc.param_ranges[k].name = f
    IN  linspace(mc.param_ranges[i].min, mc.param_ranges[i].max, grid_size)
            [indices(mc.param_ranges, mc.cell, i) + 1]

Swept == {mc.param_ranges[k].name : k \in 1 .. Len(mc.param_ranges)}

RunnerCalled == mode = "monte_carlo" /\ mc.pc = "running"

\* C11 (as claimed): two calls of the experiment runner made by
\* run_monte_carlo_stress_test with the same parameter values, random_seed
\* included, use the same shock magnitude and the same shock time and return
\* the same result, whatever the state of np.random was when the driver was
\* entered.
TrialDeterminism ==
    mode = "monte_carlo" =>
        \A i \in DOMAIN mc.log : \A j \in DOMAIN mc.log :
            mc.log[i].params = mc.log[j].params =>
                /\ mc.log[i].shock_mag = mc.log[j].shock_mag
                /\ mc.log[i].shock_time = mc.log[j].shock_time
                /\ mc.log[i].result = mc.log[j].result

\* C12 (as claimed): the parameters passed to the experiment runner equal
\* base_params in every field that is not swept and the grid value in every
\* swept field.
CopyThenOverrideClaimed ==
    RunnerCalled =>
        \A f \in Fields :
            params[f] = IF f \in Swept THEN GridValue(f) ELSE mc.base_params[f]

\* C12 (amended): the parameters passed to the experiment runner have
\* random_seed = base_params.random_seed + trial; every other field equals
\* base_params when it is not swept and the grid value when it is swept.
CopyThenOverride ==
    RunnerCalled =>
        /\ params.random_seed = mc.base_params.random_seed + mc.trial
        /\ \A f \in Fields \ {"random_seed"} :
               params[f] = IF f \in Swept THEN GridValue(f)
                           ELSE mc.base_params[f]

CopyThenOverrideWitness ==
    /\ RunnerCalled
    /\ mc.cell >= 1 /\ mc.trial >= 1 /\ tick >= 1
    /\ mc.base_params.burn_coefficient # SystemParameters.burn_coefficient
    /\ params.burn_coefficient = mc.base_params.burn_coefficient
    /\ params.initial_collateral # mc.base_params.initial_collateral

============================================================================
